---- MODULE Spec2Model ----
(***************************************************************************)
(* The nion cache engine of service-starter-kit-react: three redux state   *)
(* slices (entity store, reference store, request-status store) and the    *)
(* reducers that move them in response to dispatched actions.              *)
(*                                                                         *)
(*   entities    src/unnamed/part_000                  entitiesReducer     *)
(*   references  src/unnamed/part_001                  refsReducer         *)
(*   requests    src/src/libs/nion/reducers/requests.js requestsReducer    *)
(*                                                                         *)
(* JavaScript objects are functions with a finite string domain (a record  *)
(* may lack a field), `undefined` is the value Undefined, and a reducer    *)
(* that throws yields Thrown instead of a new state.                       *)
(***************************************************************************)
EXTENDS FiniteSets, Integers, Sequences, TLC

VARIABLES
    entities,     \* state.entities:   type -> id -> {type, id, attributes, relationships}
    references,   \* state.references: dataKey -> reference
    requests,     \* state.requests:   dataKey -> request status record
    event,        \* the action dispatched last
    before,       \* the three slices as they were when `event` was dispatched
    snapshot,     \* the state objects handed to the reducers for `event`, as they are
                  \* once the reducers have returned
    thrown,       \* the reducers that threw on `event`
    sharing,      \* the data keys under which the reference store holds, since `event`,
                  \* an object of `event` itself and not a copy of it
    repeated,     \* `event` is the same action as the one dispatched before it
    inflight,     \* per dataKey: requests sent whose outcome has not landed yet
    overlapped,   \* per dataKey: the last request was sent while another was in flight
    clock,        \* what Date.now() returns
    made          \* a call of makeRef: its input, its options and the reference returned

vars == <<entities, references, requests, event, before, snapshot, thrown, sharing,
          repeated, inflight, overlapped, clock, made>>

----------------------------------------------------------------------------
(* Bounds *)

\* longest entities list a reference is allowed to grow to by pagination
MaxLen == 3
\* most requests in flight at once for one data key
MaxInFlight == 2
\* last value of the clock
MaxTime == 1

----------------------------------------------------------------------------
(* JavaScript values *)

Undefined == "undefined"

\* {} : the object with no own property
EmptyObject == <<>>

\* id values: "1" is an ordinary id; FalsyId stands for an id that `!id`
\* takes for missing although it is not undefined ('' or 0)
FalsyId == ""
Ids == {"1", FalsyId}
Types == {"article", "post"}
DataKeys == {"feed", "post:42"}

\* JavaScript truthiness of a type or id (a string or undefined)
Truthy(v) == v # Undefined /\ v # FalsyId

\* lodash get(object, key, default) for a one-segment path
Get(object, key, default) ==
    IF key \in DOMAIN object THEN object[key] ELSE default

\* { ...a, ...b }
Spread(a, b) == b @@ a

\* the object without property `key` (delete object[key])
Delete(object, key) == [k \in DOMAIN object \ {key} |-> object[k]]

\* the result of a reducer call: the state it returns, or that it threw
Returned(state) == [threw |-> FALSE, state |-> state]
Thrown == [threw |-> TRUE, state |-> EmptyObject]

\* meta.refToDelete: absent, or an object whose type and id may be undefined
NoRefToDelete == [given |-> FALSE, type |-> Undefined, id |-> Undefined]
RefToDelete(type, id) == [given |-> TRUE, type |-> type, id |-> id]

Pointer(type, id) == [type |-> type, id |-> id]

\* the properties of a stored value that hold an opaque value or undefined
OpaqueProps == {"links", "meta", "raw"}

----------------------------------------------------------------------------
(* Entity store: src/unnamed/part_000 *)

\* MergeEntity without the spread of the old record: the fragment's entity
\* replaces the record
MergeEntityReplacing(old, type, id, entity) ==
    [type |-> type,
     id |-> id,
     attributes |-> Get(entity, "attributes", EmptyObject),
     relationships |-> Get(entity, "relationships", EmptyObject)]

\* MergeEntity with the two old-record lookups exchanged
MergeEntitySwapped(old, type, id, entity) ==
    [type |-> type,
     id |-> id,
     attributes |-> Spread(Get(old, "relationships", EmptyObject),
                           Get(entity, "attributes", EmptyObject)),
     relationships |-> Spread(Get(old, "attributes", EmptyObject),
                              Get(entity, "relationships", EmptyObject))]

\* lines 32-45: the record written for (type, id) from the old record, if any,
\* and the fragment's entity
MergeEntity(old, type, id, entity) ==
    [type |-> type,
     id |-> id,
     attributes |-> Spread(Get(old, "attributes", EmptyObject),
                           Get(entity, "attributes", EmptyObject)),
     relationships |-> Spread(Get(old, "relationships", EmptyObject),
                              Get(entity, "relationships", EmptyObject))]

\* MergeType starting from an empty per-type object (newState[type] = {}): the
\* records of the type that the fragment does not name are lost
MergeTypeFromEmpty(old, type, fragmentEntities) ==
    [id \in DOMAIN fragmentEntities |->
        MergeEntity(Get(old, id, EmptyObject), type, id, fragmentEntities[id])]

\* lines 27-46: the per-type object after the fragment's entities of that type
MergeType(old, type, fragmentEntities) ==
    [id \in DOMAIN old \cup DOMAIN fragmentEntities |->
        IF id \in DOMAIN fragmentEntities
        THEN MergeEntity(Get(old, id, EmptyObject), type, id, fragmentEntities[id])
        ELSE old[id]]

\* lines 19-47: newState after the whole storeFragment
MergeFragment(state, storeFragment) ==
    [type \in DOMAIN state \cup DOMAIN storeFragment |->
        IF type \in DOMAIN storeFragment
        THEN MergeType(Get(state, type, EmptyObject), type, storeFragment[type])
        ELSE state[type]]

\* line 50: entityToDelete && entityToDelete.id !== undefined && entityToDelete.type
EntityToDeleteApplies(entityToDelete) ==
    /\ entityToDelete.given
    /\ entityToDelete.id # Undefined
    /\ Truthy(entityToDelete.type)

\* lines 17-54
EntitiesSuccess(state, action) ==
    LET newState == MergeFragment(state, action.payload.storeFragment)
        entityToDelete == action.meta.refToDelete
    IN  IF EntityToDeleteApplies(entityToDelete)
        THEN IF entityToDelete.type \in DOMAIN newState
             THEN Returned([newState EXCEPT ![entityToDelete.type] =
                                Delete(@, entityToDelete.id)])
             ELSE Thrown   \* delete undefined[id]: TypeError
        ELSE Returned(newState)

\* EntitiesUpdateEntity reading the record with defaults (get(state, [type, id], {})):
\* a missing record is created
EntitiesUpdateEntityUpsert(state, action) ==
    LET type == action.payload.type
        id == action.payload.id
        entity == Get(Get(state, type, EmptyObject), id, EmptyObject)
        newEntity == Spread(entity,
                        [attributes |-> Spread(Get(entity, "attributes", EmptyObject),
                                               action.payload.attributes)])
    IN  Returned(Spread(state,
            (type :> Spread(Get(state, type, EmptyObject), (id :> newEntity)))))

\* lines 55-75
EntitiesUpdateEntity(state, action) ==
    LET type == action.payload.type
        id == action.payload.id
    IN  IF type \notin DOMAIN state
        THEN Thrown        \* state[type][id] of undefined: TypeError
        ELSE IF id \notin DOMAIN state[type]
        THEN Thrown        \* entity.attributes of undefined: TypeError
        ELSE LET entity == state[type][id]
                 newEntity == Spread(entity,
                                [attributes |-> Spread(entity.attributes,
                                                       action.payload.attributes)])
             IN  Returned(Spread(state,
                            (type :> Spread(state[type], (id :> newEntity)))))

\* lines 15-79
entitiesReducer(state, action) ==
    CASE action.type \in {"JSON_API_SUCCESS", "JSON_API_BOOTSTRAP"} ->
            EntitiesSuccess(state, action)
      [] action.type = "UPDATE_ENTITY" ->
            EntitiesUpdateEntity(state, action)
      [] OTHER -> Returned(state)

\* lines 17-54, what the call leaves in the object passed in as `state`: newState
\* (line 19) is a shallow copy, and a per-type object is copied (line 27) only for
\* the types of the storeFragment; for any other type newState[type] is the object
\* the prior state holds, and line 51 deletes the id from it
EntitiesSuccessLeaves(state, action) ==
    LET entityToDelete == action.meta.refToDelete
    IN  IF /\ EntityToDeleteApplies(entityToDelete)
           /\ entityToDelete.type \in DOMAIN state
           /\ entityToDelete.type \notin DOMAIN action.payload.storeFragment
        THEN [state EXCEPT ![entityToDelete.type] = Delete(@, entityToDelete.id)]
        ELSE state

\* lines 15-79, what the call leaves in the object passed in as `state`:
\* UPDATE_ENTITY (lines 55-75) builds newEntity and newState by spreads and assigns
\* to neither state nor its objects
entitiesReducerLeaves(state, action) ==
    CASE action.type \in {"JSON_API_SUCCESS", "JSON_API_BOOTSTRAP"} ->
            EntitiesSuccessLeaves(state, action)
      [] OTHER -> state

----------------------------------------------------------------------------
(* Reference store: src/unnamed/part_001 *)

\* clone handing back its argument
cloneByReference(input) == input

\* line 14: JSON.parse(JSON.stringify(input)) of a flat object: a property whose
\* value is undefined is not serialized, so the copy does not have it
clone(input) ==
    LET kept == {k \in DOMAIN input : ~(k \in OpaqueProps /\ input[k] = Undefined)}
    IN  [k \in kept |-> input[k]]

\* line 27: Array.isArray(state[dataKey].entities); a value stored without an
\* entities property has entities undefined
EntitiesIsArray(ref) == "entities" \in DOMAIN ref

\* FilterEntities handing back the surviving pointers in reverse order
FilterEntitiesReversing(oldEntities, type, id) ==
    LET keep(entity) == ~(entity.type = type /\ entity.id = id)
        kept == SelectSeq(oldEntities, keep)
    IN  [n \in 1..Len(kept) |-> kept[Len(kept) + 1 - n]]

\* lines 30-32
FilterEntities(oldEntities, type, id) ==
    LET keep(entity) == ~(entity.type = type /\ entity.id = id)
    IN  SelectSeq(oldEntities, keep)

\* lines 16-39
deleteRefFromEntities(refToDelete, state) ==
    LET type == refToDelete.type
        id == refToDelete.id
    IN  IF ~Truthy(id) \/ ~Truthy(type)
        THEN state
        ELSE [dataKey \in DOMAIN state |->
                IF EntitiesIsArray(state[dataKey])
                THEN Spread(state[dataKey],
                            [entities |-> FilterEntities(state[dataKey].entities, type, id)])
                ELSE state[dataKey]]

\* RefsNextPage with the new page put in front of the old entities
RefsNextPagePrepending(state, action) ==
    LET nextPageRef == action.payload.newRequestRef
        dataKey == action.meta.dataKey
    IN  IF dataKey \notin DOMAIN state
        THEN Thrown
        ELSE IF ~EntitiesIsArray(state[dataKey])
        THEN Thrown
        ELSE Returned(Spread(state,
                (dataKey :> Spread(nextPageRef,
                    [entities |-> nextPageRef.entities \o state[dataKey].entities]))))

\* RefsNextPage reading the old entities with a default
\* (get(state, [dataKey, 'entities'], [])): an unfetched key gets the new page
RefsNextPageLenient(state, action) ==
    LET nextPageRef == action.payload.newRequestRef
        dataKey == action.meta.dataKey
        oldEntities == Get(Get(state, dataKey, EmptyObject), "entities", <<>>)
    IN  Returned(Spread(state,
            (dataKey :> Spread(nextPageRef,
                [entities |-> oldEntities \o nextPageRef.entities]))))

\* lines 49-57
RefsNextPage(state, action) ==
    LET nextPageRef == action.payload.newRequestRef
        dataKey == action.meta.dataKey
    IN  IF dataKey \notin DOMAIN state
        THEN Thrown     \* state[dataKey].entities of undefined: TypeError
        ELSE IF ~EntitiesIsArray(state[dataKey])
        THEN Thrown     \* undefined.concat: TypeError
        ELSE Returned(Spread(state,
                (dataKey :> Spread(nextPageRef,
                    [entities |-> state[dataKey].entities \o nextPageRef.entities]))))

\* RefsSuccess purging only the reference of the action's own data key
RefsSuccessOwnKeyOnly(state, action) ==
    IF action.meta.isNextPage
    THEN RefsNextPage(state, action)
    ELSE IF action.meta.refToDelete.given
    THEN LET purged == deleteRefFromEntities(action.meta.refToDelete, state)
         IN  Returned([dataKey \in DOMAIN state |->
                        IF dataKey = action.meta.dataKey
                        THEN purged[dataKey] ELSE state[dataKey]])
    ELSE Returned(Spread(state, (action.meta.dataKey :> action.payload.newRequestRef)))

\* RefsSuccess testing refToDelete before isNextPage
RefsSuccessDeleteFirst(state, action) ==
    IF action.meta.refToDelete.given
    THEN Returned(deleteRefFromEntities(action.meta.refToDelete, state))
    ELSE IF action.meta.isNextPage
    THEN RefsNextPage(state, action)
    ELSE Returned(Spread(state, (action.meta.dataKey :> action.payload.newRequestRef)))

\* RefsSuccess taking the delete branch only for a refToDelete with type and id,
\* so that an incomplete one falls through to the replace
RefsSuccessCompleteOnly(state, action) ==
    IF action.meta.isNextPage
    THEN RefsNextPage(state, action)
    ELSE IF /\ action.meta.refToDelete.given
            /\ Truthy(action.meta.refToDelete.id)
            /\ Truthy(action.meta.refToDelete.type)
    THEN Returned(deleteRefFromEntities(action.meta.refToDelete, state))
    ELSE Returned(Spread(state, (action.meta.dataKey :> action.payload.newRequestRef)))

\* RefsSuccess merging newRequestRef over the value the data key had
\* ({ ...state[dataKey], ...newRequestRef }), so that properties of the old value
\* the new reference lacks survive
RefsSuccessMerging(state, action) ==
    IF action.meta.isNextPage
    THEN RefsNextPage(state, action)
    ELSE IF action.meta.refToDelete.given
    THEN Returned(deleteRefFromEntities(action.meta.refToDelete, state))
    ELSE Returned(Spread(state,
            (action.meta.dataKey :> Spread(Get(state, action.meta.dataKey, EmptyObject),
                                           action.payload.newRequestRef))))

\* lines 45-72
RefsSuccess(state, action) ==
    IF action.meta.isNextPage
    THEN RefsNextPage(state, action)
    ELSE IF action.meta.refToDelete.given
    THEN Returned(deleteRefFromEntities(action.meta.refToDelete, state))
    ELSE Returned(Spread(state, (action.meta.dataKey :> action.payload.newRequestRef)))

\* refsReducer emptying the reference of the data key when a request is sent
refsReducerResettingOnRequest(state, action) ==
    CASE action.type = "JSON_API_REQUEST" ->
            Returned(Spread(state, (action.meta.dataKey :>
                [entities |-> <<>>, isCollection |-> FALSE,
                 links |-> Undefined, meta |-> Undefined])))
      [] action.type \in {"JSON_API_BOOTSTRAP", "JSON_API_SUCCESS"} ->
            RefsSuccess(state, action)
      [] action.type = "GENERIC_BOOTSTRAP" ->
            Returned(Spread(state, (action.meta.dataKey :> clone(action.payload))))
      [] action.type = "INITIALIZE_DATAKEY" ->
            Returned(Spread(state, (action.payload.dataKey :> clone(action.payload.ref))))
      [] OTHER -> Returned(state)

\* lines 41-92
refsReducer(state, action) ==
    CASE action.type = "JSON_API_REQUEST" -> Returned(state)
      [] action.type \in {"JSON_API_BOOTSTRAP", "JSON_API_SUCCESS"} ->
            RefsSuccess(state, action)
      [] action.type = "GENERIC_BOOTSTRAP" ->
            Returned(Spread(state, (action.meta.dataKey :> clone(action.payload))))
      [] action.type = "INITIALIZE_DATAKEY" ->
            Returned(Spread(state, (action.payload.dataKey :> clone(action.payload.ref))))
      [] OTHER -> Returned(state)

\* lines 41-92, the data keys under which the returned state holds an object of the
\* action itself: the replace stores action.payload.newRequestRef as it is (line
\* 70) and the append spreads it (lines 53-55), which keeps its links, meta and
\* pointer objects; the purge stores nothing of the action, and GENERIC_BOOTSTRAP
\* and INITIALIZE_DATAKEY store what JSON.parse built (lines 79, 86)
refsReducerShares(action) ==
    CASE action.type \in {"JSON_API_BOOTSTRAP", "JSON_API_SUCCESS"} ->
            IF action.meta.isNextPage THEN {action.meta.dataKey}
            ELSE IF action.meta.refToDelete.given THEN {}
            ELSE {action.meta.dataKey}
      [] OTHER -> {}

\* lines 41-92, what the call leaves in the object passed in as `state`: every
\* branch builds its result by spread, concat, filter (into memo, lines 24-38) or
\* clone, and none assigns to state or to an object it holds
refsReducerLeaves(state, action) == state

----------------------------------------------------------------------------
(* Request-status store: src/src/libs/nion/reducers/requests.js *)

\* Date.now()
DateNow == clock

\* line 12: get(state, 'action.meta.dataKey'): the path is the literal string, so
\* it reads state.action.meta.dataKey, not the record of the action's data key
Existing(state) ==
    Get(Get(Get(state, "action", EmptyObject), "meta", EmptyObject),
        "dataKey", EmptyObject)

\* RequestsRequest with the record of the data key spread after the new fields, so
\* that a status already there wins
RequestsRequestExistingLast(state, action) ==
    Spread(state, (action.meta.dataKey :>
        Spread([status |-> "pending",
                isLoading |-> TRUE,
                pending |-> action.meta.method],
               Get(state, action.meta.dataKey, EmptyObject))))

\* RequestsRequest reading the record of the action's data key as `existing`
\* (get(state, action.meta.dataKey)) and merging the new fields over it
RequestsRequestMerging(state, action) ==
    Spread(state, (action.meta.dataKey :>
        Spread(Get(state, action.meta.dataKey, EmptyObject),
               [status |-> "pending",
                isLoading |-> TRUE,
                pending |-> action.meta.method])))

\* lines 15-24
RequestsRequest(state, action) ==
    Spread(state, (action.meta.dataKey :>
        Spread(Existing(state),
               [status |-> "pending",
                isLoading |-> TRUE,
                pending |-> action.meta.method])))

\* RequestsSuccess merging over the record of the data key and not resetting
\* isLoading
RequestsSuccessKeepsLoading(state, action) ==
    Spread(state, (action.meta.dataKey :>
        Spread(Get(state, action.meta.dataKey, EmptyObject),
               [status |-> "success",
                fetchedAt |-> DateNow,
                isError |-> FALSE,
                isLoaded |-> TRUE])))

\* RequestsSuccess taking a success only for a key that is pending, so that the
\* outcome of a fetch landing after another outcome is dropped
RequestsSuccessOnlyFromPending(state, action) ==
    IF Get(Get(state, action.meta.dataKey, EmptyObject), "status", Undefined) = "pending"
    THEN Spread(state, (action.meta.dataKey :>
            Spread(Existing(state),
                   [status |-> "success",
                    fetchedAt |-> DateNow,
                    isError |-> FALSE,
                    isLoaded |-> TRUE,
                    isLoading |-> FALSE])))
    ELSE state

\* lines 25-36
RequestsSuccess(state, action) ==
    Spread(state, (action.meta.dataKey :>
        Spread(Existing(state),
               [status |-> "success",
                fetchedAt |-> DateNow,
                isError |-> FALSE,
                isLoaded |-> TRUE,
                isLoading |-> FALSE])))

\* RequestsFailure merging the error fields over the record of the data key without
\* resetting pending, so that the method of the request stays in the record
RequestsFailureKeepsPending(state, action) ==
    Spread(state, (action.meta.dataKey :>
        Spread(Get(state, action.meta.dataKey, EmptyObject),
               [status |-> "error",
                name |-> action.payload.name,
                errors |-> <<action.payload.message>>,
                fetchedAt |-> DateNow,
                isError |-> TRUE,
                isLoaded |-> FALSE,
                isLoading |-> FALSE])))

\* lines 37-51
RequestsFailure(state, action) ==
    Spread(state, (action.meta.dataKey :>
        Spread(Existing(state),
               [status |-> "error",
                name |-> action.payload.name,
                errors |-> <<action.payload.message>>,
                fetchedAt |-> DateNow,
                isError |-> TRUE,
                isLoaded |-> FALSE,
                isLoading |-> FALSE,
                pending |-> Undefined])))

\* requestsReducer whose default case returns initialState instead of state
requestsReducerResetting(state, action) ==
    CASE action.type = "JSON_API_REQUEST" -> Returned(RequestsRequest(state, action))
      [] action.type = "JSON_API_SUCCESS" -> Returned(RequestsSuccess(state, action))
      [] action.type = "JSON_API_FAILURE" -> Returned(RequestsFailure(state, action))
      [] OTHER -> Returned(EmptyObject)

\* lines 11-55
requestsReducer(state, action) ==
    CASE action.type = "JSON_API_REQUEST" -> Returned(RequestsRequest(state, action))
      [] action.type = "JSON_API_SUCCESS" -> Returned(RequestsSuccess(state, action))
      [] action.type = "JSON_API_FAILURE" -> Returned(RequestsFailure(state, action))
      [] OTHER -> Returned(state)

\* lines 11-55, what the call leaves in the object passed in as `state`: each case
\* returns a spread of state with one new record
requestsReducerLeaves(state, action) == state

----------------------------------------------------------------------------
(* Ref normalizer: src/src/libs/nion/reducers/requests.js, makeRef *)

\* The value of a `data` property: an array of resources, one resource, or null.
\* `instanceof Array` reads the kind.
DataArray(items) == [kind |-> "array", items |-> items]
DataObject(item) == [kind |-> "object", items |-> <<item>>]
DataNull == [kind |-> "null", items |-> <<>>]

\* line 71: if (toProcess.data): an array (even an empty one) or an object
DataIsTruthy(toProcess) == "data" \in DOMAIN toProcess /\ toProcess.data.kind # "null"

\* line 84: toProcess.type && toProcess.id && toProcess.attributes
LooksFlat(toProcess) ==
    /\ Truthy(Get(toProcess, "type", Undefined))
    /\ Truthy(Get(toProcess, "id", Undefined))
    /\ "attributes" \in DOMAIN toProcess

\* lines 73 and 77-78: ({ type, id }) => ({ type, id })
PointerOf(resource) ==
    Pointer(Get(resource, "type", Undefined), Get(resource, "id", Undefined))

\* lines 61-99. The entities and isCollection of the result are left out of the
\* record when their value is undefined; links and meta are Undefined then.
makeRef(input, options) ==
    LET toProcess == IF "_ref" \in DOMAIN input THEN input._ref ELSE input
        \* line 67
        own == [k \in DOMAIN toProcess \cap {"entities", "isCollection"} |-> toProcess[k]]
        \* lines 71-81
        afterData ==
            IF DataIsTruthy(toProcess)
            THEN IF toProcess.data.kind = "array"
                 THEN Spread(own,
                        [entities |-> [n \in 1..Len(toProcess.data.items) |->
                                            PointerOf(toProcess.data.items[n])],
                         isCollection |-> TRUE])
                 ELSE Spread(own,
                        [entities |-> <<PointerOf(toProcess.data.items[1])>>,
                         isCollection |-> FALSE])
            ELSE own
        \* lines 84-87
        afterFlat ==
            IF LooksFlat(toProcess)
            THEN Spread(afterData,
                    [entities |-> <<Pointer(toProcess.type, toProcess.id)>>,
                     isCollection |-> FALSE])
            ELSE afterData
        \* lines 89-91
        afterOptions ==
            IF "isCollection" \in DOMAIN options /\ options.isCollection
            THEN Spread(afterFlat, [isCollection |-> TRUE])
            ELSE afterFlat
    IN  \* lines 93-98
        Spread(afterOptions,
               [links |-> Get(toProcess, "links", Undefined),
                meta |-> Get(toProcess, "meta", Undefined)])

\* makeRef is called with the input and the options drawn at the start
MakeRef ==
    /\ ~made.called
    /\ made' = [made EXCEPT !.called = TRUE,
                            !.ref = makeRef(made.input, made.options)]
    /\ UNCHANGED <<entities, references, requests, event, before, snapshot, thrown,
                   sharing, repeated, inflight, overlapped, clock>>

----------------------------------------------------------------------------
(* Store: the three slices take every dispatched action *)

\* Each reducer is applied to its own slice. A slice whose reducer throws keeps
\* its state; `thrown` records which reducers threw.
Dispatch(action) ==
    LET e == entitiesReducer(entities, action)
        r == refsReducer(references, action)
        q == requestsReducer(requests, action)
    IN  /\ entities' = IF e.threw THEN entities ELSE e.state
        /\ references' = IF r.threw THEN references ELSE r.state
        /\ requests' = IF q.threw THEN requests ELSE q.state
        /\ thrown' = {n \in {"entities"} : e.threw} \cup {n \in {"references"} : r.threw}
                        \cup {n \in {"requests"} : q.threw}
        /\ event' = action
        /\ repeated' = (action = event)
        /\ before' = [entities |-> entities, references |-> references,
                      requests |-> requests]
        /\ snapshot' = [entities |-> entitiesReducerLeaves(entities, action),
                        references |-> refsReducerLeaves(references, action),
                        requests |-> requestsReducerLeaves(requests, action)]
        /\ sharing' = IF r.threw THEN {} ELSE refsReducerShares(action)
        /\ UNCHANGED made

\* the entities list the reference of the action's data key would have after the
\* action: pagination is the only way a list grows
GrownLen(action) ==
    LET dataKey == action.meta.dataKey
    IN  IF /\ action.meta.isNextPage
           /\ dataKey \in DOMAIN references
           /\ EntitiesIsArray(references[dataKey])
        THEN Len(references[dataKey].entities) + Len(action.payload.newRequestRef.entities)
        ELSE 0

JsonApiSuccess(action) ==
    /\ action.type = "JSON_API_SUCCESS"
    /\ GrownLen(action) <= MaxLen
    /\ Dispatch(action)

JsonApiBootstrap(action) ==
    /\ action.type = "JSON_API_BOOTSTRAP"
    /\ GrownLen(action) <= MaxLen
    /\ Dispatch(action)

JsonApiRequest(action) ==
    /\ action.type = "JSON_API_REQUEST"
    /\ Dispatch(action)

JsonApiFailure(action) ==
    /\ action.type = "JSON_API_FAILURE"
    /\ Dispatch(action)

GenericBootstrap(action) ==
    /\ action.type = "GENERIC_BOOTSTRAP"
    /\ Dispatch(action)

InitializeDataKey(action) ==
    /\ action.type = "INITIALIZE_DATAKEY"
    /\ Dispatch(action)

UpdateEntity(action) ==
    /\ action.type = "UPDATE_ENTITY"
    /\ Dispatch(action)

\* no call of makeRef
NotMade == [called |-> FALSE, input |-> EmptyObject, options |-> EmptyObject,
            ref |-> EmptyObject]

\* the slices after construction: each reducer's initialState is {}
Slices ==
    /\ entities = EmptyObject
    /\ references = EmptyObject
    /\ requests = EmptyObject
    /\ event = [type |-> "@@INIT"]
    /\ before = [entities |-> EmptyObject, references |-> EmptyObject,
                 requests |-> EmptyObject]
    /\ snapshot = [entities |-> EmptyObject, references |-> EmptyObject,
                   requests |-> EmptyObject]
    /\ thrown = {}
    /\ sharing = {}
    /\ repeated = FALSE
    /\ inflight = [k \in DataKeys |-> 0]
    /\ overlapped = [k \in DataKeys |-> FALSE]
    /\ clock = 0

Init == Slices /\ made = NotMade

----------------------------------------------------------------------------
(* Actions dispatched *)

SuccessAction(type, dataKey, isNextPage, refToDelete, storeFragment, newRequestRef) ==
    [type |-> type,
     meta |-> [dataKey |-> dataKey, isNextPage |-> isNextPage,
               refToDelete |-> refToDelete],
     payload |-> [storeFragment |-> storeFragment, newRequestRef |-> newRequestRef]]

UpdateEntityAction(type, id, attributes) ==
    [type |-> "UPDATE_ENTITY",
     payload |-> [type |-> type, id |-> id, attributes |-> attributes]]

Ref(ents, isCollection, links, meta) ==
    [entities |-> ents, isCollection |-> isCollection, links |-> links, meta |-> meta]

EmptyRef == Ref(<<>>, TRUE, Undefined, Undefined)

----------------------------------------------------------------------------
(* Entity-store runs: bulk fragments, deletes and manual updates in any order *)

FragmentsE ==
    { EmptyObject,
      [article |-> ("1" :> [attributes |-> [title |-> "A"]])],
      [article |-> ("1" :> [attributes |-> [views |-> 10],
                            relationships |-> [author |-> "u1"]])],
      [article |-> (FalsyId :> EmptyObject),
       post |-> ("1" :> [attributes |-> [title |-> "A"]])] }

RefsToDeleteE ==
    { RefToDelete("article", "1"), RefToDelete("post", "1"), RefToDelete("article", FalsyId),
      RefToDelete(Undefined, "1"), RefToDelete("article", Undefined) }

BootstrapsE ==
    { SuccessAction("JSON_API_BOOTSTRAP", "feed", FALSE, NoRefToDelete, f, EmptyRef) :
        f \in FragmentsE }
    \cup
    { SuccessAction("JSON_API_BOOTSTRAP", "feed", FALSE, d, f, EmptyRef) :
        d \in RefsToDeleteE,
        f \in {EmptyObject, [article |-> ("1" :> [attributes |-> [title |-> "A"]])]} }

SuccessesE ==
    { SuccessAction("JSON_API_SUCCESS", "feed", FALSE, d, f, EmptyRef) :
        d \in {NoRefToDelete, RefToDelete("post", "1")},
        f \in {EmptyObject, [article |-> ("1" :> [attributes |-> [views |-> 10],
                                                   relationships |-> [author |-> "u1"]])]} }

UpdatesE ==
    { UpdateEntityAction(t, "1", [title |-> "C"]) : t \in Types }
    \cup { UpdateEntityAction("article", FalsyId, [views |-> 20]) }

\* an action dispatched without a fetch being tracked, at the same instant
Untracked == UNCHANGED <<inflight, overlapped, clock>>

NextE ==
    \/ \E a \in BootstrapsE : JsonApiBootstrap(a) /\ Untracked
    \/ \E a \in SuccessesE : JsonApiSuccess(a) /\ Untracked
    \/ \E a \in UpdatesE : UpdateEntity(a) /\ Untracked

SpecE == Init /\ [][NextE]_vars

----------------------------------------------------------------------------
(* Reference-store runs: replace, paginate, delete, generic bootstrap and manual
   initialization on two data keys, in any order *)

GenericAction(dataKey, payload) ==
    [type |-> "GENERIC_BOOTSTRAP", meta |-> [dataKey |-> dataKey], payload |-> payload]

InitializeAction(dataKey, ref) ==
    [type |-> "INITIALIZE_DATAKEY", payload |-> [dataKey |-> dataKey, ref |-> ref]]

RefA == Ref(<<Pointer("article", "1"), Pointer("post", "1")>>, TRUE, "page1", "m1")
RefB == Ref(<<Pointer("post", FalsyId)>>, FALSE, "page2", "m2")
NewRequestRefsR == {RefA, RefB}

FragmentR ==
    [post |-> ("1" :> [attributes |-> [title |-> "A"]]
                @@ FalsyId :> [attributes |-> [title |-> "B"]])]

RefsToDeleteR ==
    { NoRefToDelete, RefToDelete("post", "1"), RefToDelete("post", Undefined),
      RefToDelete("post", FalsyId) }

SuccessesR ==
    { SuccessAction("JSON_API_SUCCESS", "feed", n, d, FragmentR, r) :
        n \in BOOLEAN, d \in RefsToDeleteR, r \in NewRequestRefsR }
    \cup
    { SuccessAction("JSON_API_SUCCESS", "post:42", n, d, FragmentR, RefA) :
        n \in BOOLEAN, d \in {NoRefToDelete, RefToDelete("post", "1")} }

BootstrapsR ==
    { SuccessAction("JSON_API_BOOTSTRAP", "feed", n, d, EmptyObject, RefA) :
        n \in BOOLEAN, d \in {NoRefToDelete, RefToDelete("post", "1")} }

\* a generic payload is a JSON object without an entities property
GenericsR == { GenericAction("post:42", [raw |-> "settings"]) }

\* the ref a parent component hands down: as makeRef returns it, with links and
\* meta undefined when the payload had none
InitializesR ==
    { InitializeAction("post:42", Ref(<<Pointer("post", "1")>>, FALSE, Undefined, Undefined)),
      InitializeAction("post:42", Ref(<<Pointer("post", "1")>>, FALSE, "page1", "m1")) }

NextR ==
    \/ \E a \in SuccessesR : JsonApiSuccess(a) /\ Untracked
    \/ \E a \in BootstrapsR : JsonApiBootstrap(a) /\ Untracked
    \/ \E a \in GenericsR : GenericBootstrap(a) /\ Untracked
    \/ \E a \in InitializesR : InitializeDataKey(a) /\ Untracked

SpecR == Init /\ [][NextR]_vars

----------------------------------------------------------------------------
(* Request runs: fetches are sent and their outcomes land later, in any order and
   overlapping, while time passes; the other actions are dispatched in between *)

RequestAction(dataKey, method) ==
    [type |-> "JSON_API_REQUEST", meta |-> [dataKey |-> dataKey, method |-> method]]

FailureAction(dataKey, name, message) ==
    [type |-> "JSON_API_FAILURE", meta |-> [dataKey |-> dataKey],
     payload |-> [name |-> name, message |-> message]]

\* A fetch is sent: JSON_API_REQUEST is dispatched and the fetch is in flight.
Send(action) ==
    LET dataKey == action.meta.dataKey
    IN  /\ inflight[dataKey] < MaxInFlight
        /\ JsonApiRequest(action)
        /\ inflight' = [inflight EXCEPT ![dataKey] = @ + 1]
        /\ overlapped' = [overlapped EXCEPT ![dataKey] = inflight[dataKey] > 0]
        /\ UNCHANGED clock

\* The response of a fetch in flight arrives: JSON_API_SUCCESS is dispatched.
LandSuccess(action) ==
    LET dataKey == action.meta.dataKey
    IN  /\ inflight[dataKey] > 0
        /\ JsonApiSuccess(action)
        /\ inflight' = [inflight EXCEPT ![dataKey] = @ - 1]
        /\ UNCHANGED <<overlapped, clock>>

\* A fetch in flight fails: JSON_API_FAILURE is dispatched.
LandFailure(action) ==
    LET dataKey == action.meta.dataKey
    IN  /\ inflight[dataKey] > 0
        /\ JsonApiFailure(action)
        /\ inflight' = [inflight EXCEPT ![dataKey] = @ - 1]
        /\ UNCHANGED <<overlapped, clock>>

\* Time passes.
Tick ==
    /\ clock < MaxTime
    /\ clock' = clock + 1
    /\ UNCHANGED <<entities, references, requests, event, before, snapshot, thrown,
                   sharing, repeated, inflight, overlapped, made>>

\* a read of the feed and a write of the post, so that the methods differ
RequestsQ == { RequestAction("feed", "GET"), RequestAction("post:42", "POST") }

SuccessesQ ==
    { SuccessAction("JSON_API_SUCCESS", "feed", FALSE, NoRefToDelete, FragmentR, r) :
        r \in NewRequestRefsR }
    \cup
    { SuccessAction("JSON_API_SUCCESS", "feed", FALSE, RefToDelete("post", "1"),
                    EmptyObject, EmptyRef) }

FailuresQ == { FailureAction(k, "ApiError", "Not Found") : k \in DataKeys }

BootstrapsQ ==
    { SuccessAction("JSON_API_BOOTSTRAP", "feed", FALSE, NoRefToDelete, FragmentR, RefA) }

UpdatesQ == { UpdateEntityAction("post", "1", [title |-> "A"]) }

NextQ ==
    \/ \E a \in RequestsQ : Send(a)
    \/ \E a \in SuccessesQ : LandSuccess(a)
    \/ \E a \in FailuresQ : LandFailure(a)
    \/ Tick
    \/ \E a \in BootstrapsQ : JsonApiBootstrap(a) /\ Untracked
    \/ \E a \in GenericsR : GenericBootstrap(a) /\ Untracked
    \/ \E a \in InitializesR : InitializeDataKey(a) /\ Untracked
    \/ \E a \in UpdatesQ : UpdateEntity(a) /\ Untracked

SpecQ == Init /\ [][NextQ]_vars

----------------------------------------------------------------------------
(* Normalizer runs: one call of makeRef on an input put together from the shapes it
   knows - a view with a backing reference, a data linkage, a flat resource, a
   reference - in every combination, with and without the isCollection option *)

Post1 == [type |-> "post", id |-> "1", attributes |-> [title |-> "A"]]
Article1 == [type |-> "article", id |-> "1"]

BackingParts == { EmptyObject, [_ref |-> RefB] }

DataParts ==
    { EmptyObject,
      [data |-> DataNull],
      [data |-> DataArray(<<>>)],
      [data |-> DataArray(<<Post1>>)],
      [data |-> DataArray(<<Post1, Article1>>)],
      [data |-> DataArray(<<Article1, Post1>>)],
      [data |-> DataObject(Article1)] }

FlatParts ==
    { EmptyObject,
      [type |-> "post", id |-> "1", attributes |-> [title |-> "A"]],
      [type |-> "post", id |-> "1"],
      [type |-> "post", id |-> FalsyId, attributes |-> EmptyObject] }

ReferenceParts ==
    { EmptyObject,
      [entities |-> <<Pointer("post", FalsyId)>>, isCollection |-> TRUE] }

OpaqueParts == { EmptyObject, [links |-> "page1", meta |-> "m1"] }

InputsM ==
    { b @@ d @@ f @@ r @@ o :
        b \in BackingParts, d \in DataParts, f \in FlatParts, r \in ReferenceParts,
        o \in OpaqueParts }

OptionsM == { EmptyObject, [isCollection |-> TRUE], [isCollection |-> FALSE] }

InitM ==
    /\ Slices
    /\ \E i \in InputsM, o \in OptionsM :
            made = [called |-> FALSE, input |-> i, options |-> o, ref |-> EmptyObject]

NextM == MakeRef

SpecM == InitM /\ [][NextM]_vars

----------------------------------------------------------------------------
(* Properties of the entity store *)

IsSuccessOrBootstrap(action) == action.type \in {"JSON_API_SUCCESS", "JSON_API_BOOTSTRAP"}

\* the (type, id) pairs that have a record in an entity store or a fragment
Pairs(store) == {<<t, i>> \in Types \X Ids : t \in DOMAIN store /\ i \in DOMAIN store[t]}

\* the pair whose record the delete step of a success/bootstrap action removes
DeletedPairs(action) ==
    LET d == action.meta.refToDelete
    IN  IF d.given /\ d.type # Undefined /\ d.id # Undefined THEN {<<d.type, d.id>>} ELSE {}

\* `new` is `old` with the keys of `given` laid over it
MergedOver(new, old, given) ==
    /\ DOMAIN new = DOMAIN old \cup DOMAIN given
    /\ \A k \in DOMAIN given : new[k] = given[k]
    /\ \A k \in DOMAIN old \ DOMAIN given : new[k] = old[k]

\* the attributes / relationships of a pair in a store, {} when it has no record
Field(store, p, field) ==
    IF p \in Pairs(store) THEN store[p[1]][p[2]][field] ELSE EmptyObject

C4_BulkFragmentIdempotent ==
    (repeated /\ IsSuccessOrBootstrap(event)) => entities = before.entities

\* C4 witness: the second dispatch of an action whose fragment writes records
C4_Witness ==
    /\ repeated
    /\ IsSuccessOrBootstrap(event)
    /\ "entities" \notin thrown
    /\ Pairs(event.payload.storeFragment) # {}
    /\ \E p \in Pairs(event.payload.storeFragment) :
            /\ p \in Pairs(entities)
            /\ DOMAIN entities[p[1]][p[2]].attributes # {}
            /\ DOMAIN entities[p[1]][p[2]].relationships # {}

\* C8: an UPDATE_ENTITY whose (type,id) has no record - the type missing, or the id
\* missing under a type that exists - makes the entity reducer throw, and the
\* entity store stays as it was
C8_UpdateOfMissingEntityFails ==
    (event.type = "UPDATE_ENTITY"
        /\ <<event.payload.type, event.payload.id>> \notin Pairs(before.entities)) =>
            /\ "entities" \in thrown
            /\ entities = before.entities

\* C8 witness: the update named an id missing under a type that has records
C8_Witness ==
    /\ event.type = "UPDATE_ENTITY"
    /\ event.payload.type \in DOMAIN before.entities
    /\ DOMAIN before.entities[event.payload.type] # {}
    /\ event.payload.id \notin DOMAIN before.entities[event.payload.type]
    /\ "entities" \in thrown

\* C8 witness of the other case: the type itself had no records
C8_WitnessTypeMissing ==
    /\ event.type = "UPDATE_ENTITY"
    /\ event.payload.type \notin DOMAIN before.entities
    /\ DOMAIN before.entities # {}
    /\ "entities" \in thrown

----------------------------------------------------------------------------
(* Properties of the reference store *)

\* the positions of a reference's entities list that point at (type, id)
PointsAt(ref, type, id) ==
    IF EntitiesIsArray(ref)
    THEN {n \in 1..Len(ref.entities) :
            ref.entities[n].type = type /\ ref.entities[n].id = id}
    ELSE {}

\* no list of the store points at (type, id), and the values without a list are
\* those of `old`
PurgedEverywhere(store, old, type, id) ==
    \A k \in DOMAIN store :
        /\ PointsAt(store[k], type, id) = {}
        /\ (k \in DOMAIN old /\ ~EntitiesIsArray(old[k])) => store[k] = old[k]

\* the action carries a refToDelete whose type and id both count as given for
\* the reference store
CarriesCompleteRef(action) ==
    /\ IsSuccessOrBootstrap(action)
    /\ action.meta.refToDelete.given
    /\ Truthy(action.meta.refToDelete.type)
    /\ Truthy(action.meta.refToDelete.id)

IsNextPage(action) == IsSuccessOrBootstrap(action) /\ action.meta.isNextPage

\* the data key of the action held a reference with an entities list
HadReference(action) ==
    /\ action.meta.dataKey \in DOMAIN before.references
    /\ EntitiesIsArray(before.references[action.meta.dataKey])

\* every data key but `dataKey` has the value it had
OthersUnchanged(dataKey) ==
    /\ DOMAIN references \ {dataKey} = DOMAIN before.references \ {dataKey}
    /\ \A k \in DOMAIN references \ {dataKey} : references[k] = before.references[k]

\* C2: a next-page success on a data key that has a reference leaves under that
\* key the old entities followed by newRequestRef's entities, with isCollection,
\* links and meta of newRequestRef, and leaves every other data key as it was
C2_NextPageAppends ==
    (IsNextPage(event) /\ HadReference(event)) =>
        LET k == event.meta.dataKey
            new == event.payload.newRequestRef
        IN  /\ "references" \notin thrown
            /\ k \in DOMAIN references
            /\ references[k].entities = before.references[k].entities \o new.entities
            /\ DOMAIN references[k] = DOMAIN new
            /\ \A f \in DOMAIN new \ {"entities"} : references[k][f] = new[f]
            /\ OthersUnchanged(k)

\* C2 witness: two old entities and a new page that differs from them, under other
\* links, meta and isCollection, with another data key in the store
C2_Witness ==
    /\ IsNextPage(event) /\ HadReference(event)
    /\ LET old == before.references[event.meta.dataKey]
           new == event.payload.newRequestRef
       IN  /\ Len(old.entities) = 2
           /\ old.entities[1] # old.entities[2]
           /\ Len(new.entities) = 1
           /\ new.entities[1] \notin {old.entities[1], old.entities[2]}
           /\ "links" \in DOMAIN old /\ old.links # new.links
           /\ old.isCollection # new.isCollection
           /\ Len(references[event.meta.dataKey].entities) = 3
    /\ DOMAIN references \ {event.meta.dataKey} # {}

\* C7: a next-page success for a data key without a value in the reference store
\* makes the reference reducer throw; no reference is made for the key and the
\* reference store is as it was
C7_NextPageOfUnfetchedKeyFails ==
    (IsNextPage(event) /\ event.meta.dataKey \notin DOMAIN before.references) =>
        /\ "references" \in thrown
        /\ event.meta.dataKey \notin DOMAIN references
        /\ references = before.references

\* C7 witness: such an action arrived while another data key had a reference
C7_Witness ==
    /\ IsNextPage(event)
    /\ event.type = "JSON_API_SUCCESS"
    /\ event.meta.dataKey \notin DOMAIN before.references
    /\ DOMAIN before.references # {}
    /\ Len(event.payload.newRequestRef.entities) > 0
    /\ "references" \in thrown

\* the refToDelete of the action is there but lacks its type, its id, or both
CarriesIncompleteRef(action) ==
    /\ action.meta.refToDelete.given
    /\ \/ action.meta.refToDelete.type = Undefined
       \/ action.meta.refToDelete.id = Undefined

Without(list, type, id) ==
    LET other(pointer) == pointer.type # type \/ pointer.id # id
    IN  SelectSeq(list, other)

\* `store` is `old` after the purge of refToDelete and nothing else
IsPurgeOf(store, old, refToDelete) ==
    /\ DOMAIN store = DOMAIN old
    /\ \A k \in DOMAIN old :
        IF EntitiesIsArray(old[k]) /\ Truthy(refToDelete.type) /\ Truthy(refToDelete.id)
        THEN /\ DOMAIN store[k] = DOMAIN old[k]
             /\ store[k].entities = Without(old[k].entities, refToDelete.type, refToDelete.id)
             /\ \A f \in DOMAIN old[k] \ {"entities"} : store[k][f] = old[k][f]
        ELSE store[k] = old[k]

\* `store` is `old` after the append of newRequestRef under dataKey and nothing else
IsAppendOf(store, old, dataKey, newRequestRef) ==
    /\ DOMAIN store = DOMAIN old
    /\ dataKey \in DOMAIN old
    /\ EntitiesIsArray(old[dataKey]) /\ EntitiesIsArray(store[dataKey])
    /\ store[dataKey].entities = old[dataKey].entities \o newRequestRef.entities
    /\ \A k \in DOMAIN old \ {dataKey} : store[k] = old[k]

\* `store` is `old` with newRequestRef installed under dataKey and nothing else
IsReplaceOf(store, old, dataKey, newRequestRef) ==
    /\ DOMAIN store = DOMAIN old \cup {dataKey}
    /\ store[dataKey] = newRequestRef
    /\ \A k \in DOMAIN old \ {dataKey} : store[k] = old[k]

\* C10: on a success/bootstrap action the reference store does the one of append,
\* purge, replace that the precedence selects: with isNextPage the append (no purge
\* of refToDelete, no replace; nothing at all when the append fails); without it
\* and with a refToDelete the purge (newRequestRef is not installed); otherwise the
\* replace
C10_OneOfAppendPurgeReplace ==
    IsSuccessOrBootstrap(event) =>
        LET old == before.references
            k == event.meta.dataKey
            new == event.payload.newRequestRef
        IN  IF event.meta.isNextPage
            THEN IF "references" \in thrown
                 THEN references = old
                 ELSE IsAppendOf(references, old, k, new)
            ELSE IF event.meta.refToDelete.given
            THEN "references" \notin thrown
                    /\ IsPurgeOf(references, old, event.meta.refToDelete)
            ELSE "references" \notin thrown /\ IsReplaceOf(references, old, k, new)

\* C10 witness: an action with both isNextPage and a complete refToDelete appended
\* its page and left the pointers at the deleted record in place
C10_Witness ==
    /\ IsNextPage(event) /\ CarriesCompleteRef(event)
    /\ "references" \notin thrown
    /\ \E k \in DOMAIN references :
            /\ PointsAt(before.references[k], event.meta.refToDelete.type,
                        event.meta.refToDelete.id) # {}
            /\ PointsAt(references[k], event.meta.refToDelete.type,
                        event.meta.refToDelete.id) # {}
    /\ Len(references[event.meta.dataKey].entities)
            > Len(before.references[event.meta.dataKey].entities)

----------------------------------------------------------------------------
(* Properties of the request-status store *)

\* the status of a data key: a key without a record counts as not-called
StatusOf(store, dataKey) ==
    IF dataKey \in DOMAIN store THEN store[dataKey].status ELSE "not-called"

IsOutcome(action) == action.type \in {"JSON_API_SUCCESS", "JSON_API_FAILURE"}

\* C5 as claimed: for every sequence of request-sent, success and failure actions,
\* overlapping fetches included, a key's status becomes success or error only from
\* pending, and becomes pending only from not-called, success or error
C5_AsClaimed ==
    (IsOutcome(event) \/ event.type = "JSON_API_REQUEST") =>
        LET was == StatusOf(before.requests, event.meta.dataKey)
            is == StatusOf(requests, event.meta.dataKey)
        IN  /\ (is \in {"success", "error"} /\ is # was) => was = "pending"
            /\ (is = "pending" /\ is # was) => was \in {"not-called", "success", "error"}

\* C5 amended: as long as the fetches of a data key do not overlap (each is sent
\* when no other fetch of the key is in flight), the key's status cycles
\* not-called -> pending -> {success, error} -> pending -> ...: an outcome finds
\* the key pending and leaves it success or error, a request-sent finds it
\* not-called, success or error and leaves it pending.
C5_CycleWithoutOverlap ==
    ((IsOutcome(event) \/ event.type = "JSON_API_REQUEST")
        /\ ~overlapped[event.meta.dataKey]) =>
        LET was == StatusOf(before.requests, event.meta.dataKey)
            is == StatusOf(requests, event.meta.dataKey)
        IN  IF IsOutcome(event)
            THEN was = "pending" /\ is \in {"success", "error"}
                    /\ (is = "success") = (event.type = "JSON_API_SUCCESS")
            ELSE was \in {"not-called", "success", "error"} /\ is = "pending"

\* C5 witness: with no fetch overlapping, a key that had gone through pending to
\* error is pending again
C5_Witness ==
    /\ event.type = "JSON_API_REQUEST"
    /\ ~overlapped[event.meta.dataKey]
    /\ StatusOf(before.requests, event.meta.dataKey) = "error"
    /\ StatusOf(requests, event.meta.dataKey) = "pending"
    /\ inflight[event.meta.dataKey] = 1

\* a boolean field of a record is there and true
IsTrue(record, field) == field \in DOMAIN record /\ record[field] = TRUE

\* C6: in every reachable state each record's booleans agree with its status:
\* success goes with neither isError nor isLoading, error with neither isLoaded
\* nor isLoading, and pending with isLoading
C6_BooleansAgreeWithStatus ==
    \A k \in DOMAIN requests :
        LET r == requests[k]
        IN  /\ r.status \in {"pending", "success", "error"}
            /\ r.status = "success" => ~IsTrue(r, "isError") /\ ~IsTrue(r, "isLoading")
            /\ r.status = "error" => ~IsTrue(r, "isLoaded") /\ ~IsTrue(r, "isLoading")
            /\ r.status = "pending" => IsTrue(r, "isLoading")

\* C6 witness: a success landed on a key that was pending, while the other key is
\* in error after having been pending
C6_Witness ==
    /\ event.type = "JSON_API_SUCCESS"
    /\ StatusOf(before.requests, event.meta.dataKey) = "pending"
    /\ StatusOf(requests, event.meta.dataKey) = "success"
    /\ \E k \in DOMAIN requests : requests[k].status = "error"

----------------------------------------------------------------------------
(* Properties of the replace *)

\* the action is a success/bootstrap with neither isNextPage nor refToDelete
IsPlainSuccess(action) ==
    /\ IsSuccessOrBootstrap(action)
    /\ ~action.meta.isNextPage
    /\ ~action.meta.refToDelete.given

\* C11: after a success/bootstrap action with neither isNextPage nor refToDelete
\* the value under the action's data key is newRequestRef and nothing else - its
\* entities, isCollection, links and meta, and no property of the value the key
\* had before - and every other data key has the value it had
C11_ReplaceIsWholesale ==
    IsPlainSuccess(event) =>
        LET k == event.meta.dataKey
            new == event.payload.newRequestRef
        IN  /\ "references" \notin thrown
            /\ k \in DOMAIN references
            /\ DOMAIN references[k] = {"entities", "isCollection", "links", "meta"}
            /\ references[k].entities = new.entities
            /\ references[k].isCollection = new.isCollection
            /\ references[k].links = new.links
            /\ references[k].meta = new.meta
            /\ OthersUnchanged(k)

\* C11 witness: the key held a reference with other entities, isCollection, links
\* and meta, and another data key holds a value
C11_Witness ==
    /\ IsPlainSuccess(event) /\ HadReference(event)
    /\ LET old == before.references[event.meta.dataKey]
           new == event.payload.newRequestRef
       IN  /\ "links" \in DOMAIN old /\ old.links # new.links
           /\ "meta" \in DOMAIN old /\ old.meta # new.meta
           /\ old.entities # new.entities
           /\ old.isCollection # new.isCollection
           /\ references[event.meta.dataKey] = new
    /\ DOMAIN references \ {event.meta.dataKey} # {}

\* C11 witness of the other case: the key held a value that is not a reference
\* (a generic payload), and none of its properties is left
C11_WitnessOverGeneric ==
    /\ IsPlainSuccess(event)
    /\ event.meta.dataKey \in DOMAIN before.references
    /\ "raw" \in DOMAIN before.references[event.meta.dataKey]
    /\ "raw" \notin DOMAIN references[event.meta.dataKey]

----------------------------------------------------------------------------
(* Properties of the request-status transitions *)

\* a field of a record is there and false
IsFalse(record, field) == field \in DOMAIN record /\ record[field] = FALSE

\* the record names no pending method: the field is missing or undefined
PendingCleared(record) == Get(record, "pending", Undefined) = Undefined

\* every data key but `dataKey` has the request record it had, or none as before
OtherRequestsUnchanged(dataKey) ==
    /\ DOMAIN requests \ {dataKey} = DOMAIN before.requests \ {dataKey}
    /\ \A k \in DOMAIN requests \ {dataKey} : requests[k] = before.requests[k]

\* C12: whatever the record of data key k was (none, pending, success or error),
\* after a request-sent action on k the record has status pending and pending =
\* the action's method; after a success, status success, isLoaded true, isError
\* false and no pending method; after a failure, status error, isError true,
\* isLoaded false, no pending method, name = payload.name and errors =
\* [payload.message]. The records of the other data keys are as they were.
C12_TransitionFields ==
    (event.type \in {"JSON_API_REQUEST", "JSON_API_SUCCESS", "JSON_API_FAILURE"}) =>
        LET k == event.meta.dataKey
            r == Get(requests, k, EmptyObject)
            status == Get(r, "status", Undefined)
        IN  /\ "requests" \notin thrown
            /\ k \in DOMAIN requests
            /\ OtherRequestsUnchanged(k)
            /\ event.type = "JSON_API_REQUEST" =>
                    /\ status = "pending"
                    /\ Get(r, "pending", Undefined) = event.meta.method
            /\ event.type = "JSON_API_SUCCESS" =>
                    /\ status = "success"
                    /\ IsTrue(r, "isLoaded")
                    /\ IsFalse(r, "isError")
                    /\ PendingCleared(r)
            /\ event.type = "JSON_API_FAILURE" =>
                    /\ status = "error"
                    /\ IsTrue(r, "isError")
                    /\ IsFalse(r, "isLoaded")
                    /\ PendingCleared(r)
                    /\ Get(r, "name", Undefined) = event.payload.name
                    /\ Get(r, "errors", <<>>) = <<event.payload.message>>

\* C12 witness: a failure landed on a key whose record was pending with a method,
\* while the other key has a record
C12_Witness ==
    /\ event.type = "JSON_API_FAILURE"
    /\ StatusOf(before.requests, event.meta.dataKey) = "pending"
    /\ ~PendingCleared(before.requests[event.meta.dataKey])
    /\ StatusOf(requests, event.meta.dataKey) = "error"
    /\ DOMAIN requests \ {event.meta.dataKey} # {}

\* C12 witnesses of a request-sent action from each prior state
C12_WitnessFromAbsent ==
    /\ event.type = "JSON_API_REQUEST"
    /\ event.meta.dataKey \notin DOMAIN before.requests
    /\ StatusOf(requests, event.meta.dataKey) = "pending"

C12_WitnessFromPending ==
    /\ event.type = "JSON_API_REQUEST"
    /\ StatusOf(before.requests, event.meta.dataKey) = "pending"
    /\ StatusOf(requests, event.meta.dataKey) = "pending"

C12_WitnessFromSuccess ==
    /\ event.type = "JSON_API_REQUEST"
    /\ StatusOf(before.requests, event.meta.dataKey) = "success"
    /\ StatusOf(requests, event.meta.dataKey) = "pending"

C12_WitnessFromError ==
    /\ event.type = "JSON_API_REQUEST"
    /\ StatusOf(before.requests, event.meta.dataKey) = "error"
    /\ StatusOf(requests, event.meta.dataKey) = "pending"

\* C12 witness of a success landing on an error record (overlapping fetches)
C12_WitnessSuccessOverError ==
    /\ event.type = "JSON_API_SUCCESS"
    /\ StatusOf(before.requests, event.meta.dataKey) = "error"
    /\ StatusOf(requests, event.meta.dataKey) = "success"

\* C13: no action of any type takes a data key out of the request-status store:
\* every key that had a record when the last action was dispatched has one now
\* (step by step, hence in every later state)
C13_RecordsAreNeverRemoved ==
    DOMAIN before.requests \subseteq DOMAIN requests

\* C13 witness: a delete (a success carrying a complete refToDelete) landed while
\* both data keys had a record, and both still have one
C13_Witness ==
    /\ CarriesCompleteRef(event)
    /\ DOMAIN before.requests = DataKeys
    /\ DOMAIN requests = DataKeys

\* C13 witnesses of the actions the request reducer has no case for
C13_WitnessBootstrap ==
    /\ event.type = "JSON_API_BOOTSTRAP"
    /\ event.meta.dataKey \in DOMAIN before.requests
    /\ event.meta.dataKey \in DOMAIN requests

C13_WitnessGenericBootstrap ==
    /\ event.type = "GENERIC_BOOTSTRAP"
    /\ event.meta.dataKey \in DOMAIN before.requests
    /\ event.meta.dataKey \in DOMAIN requests

C13_WitnessInitializeDataKey ==
    /\ event.type = "INITIALIZE_DATAKEY"
    /\ event.payload.dataKey \in DOMAIN before.requests
    /\ event.payload.dataKey \in DOMAIN requests

C13_WitnessUpdateEntity ==
    /\ event.type = "UPDATE_ENTITY"
    /\ DOMAIN before.requests = DataKeys
    /\ DOMAIN requests = DataKeys

----------------------------------------------------------------------------
(* Properties of the ref normalizer *)

\* the options of the call give isCollection a value, true or false
OverrideGiven == "isCollection" \in DOMAIN made.options

\* the input of the call as makeRef reads it: the backing reference of a view, or
\* the input itself
Processed == IF "_ref" \in DOMAIN made.input THEN made.input._ref ELSE made.input

\* the input read has one of the shapes the inference knows: a data array, a single
\* data object, or a flat resource
HasShape == DataIsTruthy(Processed) \/ LooksFlat(Processed)

\* C14 as claimed: when the options of a makeRef call give isCollection a value,
\* true or false, the isCollection of the result is that value, whatever the shape
\* of the input (data array, single data object, flat resource) would have given
C14_AsClaimed ==
    (made.called /\ OverrideGiven /\ HasShape) =>
        /\ "isCollection" \in DOMAIN made.ref
        /\ made.ref.isCollection = made.options.isCollection

\* the (type, id) pointers of the elements of a data linkage, in their order
PointersOf(data) == [n \in 1..Len(data.items) |-> PointerOf(data.items[n])]

\* the result has this entities list and this isCollection
Gives(ents, isCollection) ==
    /\ "entities" \in DOMAIN made.ref /\ made.ref.entities = ents
    /\ "isCollection" \in DOMAIN made.ref /\ made.ref.isCollection = isCollection

\* C15 as claimed: without an isCollection option, makeRef reads the backing
\* reference of its input if there is one, else the input; when what it reads has
\* a data field the result comes from data - an array gives one (type,id) pointer
\* per element in order and isCollection true, a single object a one-element list
\* and isCollection false; the flat-resource rule (type, id, attributes) applies
\* only when there is no data; links and meta are those of what it reads
C15_AsClaimed ==
    (made.called /\ ~OverrideGiven) =>
        /\ made.ref.links = Get(Processed, "links", Undefined)
        /\ made.ref.meta = Get(Processed, "meta", Undefined)
        /\ IF DataIsTruthy(Processed)
           THEN IF Processed.data.kind = "array"
                THEN Gives(PointersOf(Processed.data), TRUE)
                ELSE Gives(PointersOf(Processed.data), FALSE)
           ELSE LooksFlat(Processed) =>
                    Gives(<<Pointer(Processed.type, Processed.id)>>, FALSE)

----------------------------------------------------------------------------
(* Properties of overlapping fetches *)

C16_WitnessFailureLast ==
    /\ event.type = "JSON_API_FAILURE"
    /\ overlapped[event.meta.dataKey]
    /\ inflight[event.meta.dataKey] = 0
    /\ StatusOf(before.requests, event.meta.dataKey) = "success"
    /\ StatusOf(requests, event.meta.dataKey) = "error"
    /\ event.meta.dataKey \in DOMAIN references
    /\ references[event.meta.dataKey] \in NewRequestRefsR

\* C16 witness: a success landed over the error the other fetch had left
C16_WitnessSuccessAfterFailure ==
    /\ IsPlainSuccess(event) /\ event.type = "JSON_API_SUCCESS"
    /\ overlapped[event.meta.dataKey]
    /\ inflight[event.meta.dataKey] = 0
    /\ StatusOf(before.requests, event.meta.dataKey) = "error"
    /\ StatusOf(requests, event.meta.dataKey) = "success"

----------------------------------------------------------------------------
(* Properties of the transitions as functions of the prior state *)

\* C17 as claimed: whatever the action, the state objects handed to the three
\* reducers, with their per-type and per-key objects, have after the dispatch the
\* content they had before it; in particular a success/bootstrap with a complete
\* refToDelete does not take the record out of the prior entity store
C17_AsClaimed == snapshot = before

----------------------------------------------------------------------------
(* Properties of the manual initialization of a data key *)

\* every reference but the one of `dataKey`, the entity store and the
\* request-status store are as they were
OnlyReferenceWritten(dataKey) ==
    /\ OthersUnchanged(dataKey)
    /\ entities = before.entities
    /\ requests = before.requests

C18_WitnessWithLinks ==
    /\ event.type = "INITIALIZE_DATAKEY"
    /\ event.payload.ref.links # Undefined
    /\ event.payload.dataKey \notin DOMAIN before.references
    /\ references[event.payload.dataKey] = event.payload.ref

\* C18 witness that `sharing` tells a stored object from a copy: a replace left
\* the action's newRequestRef itself in the store
C18_WitnessReplaceShares ==
    /\ IsPlainSuccess(event)
    /\ event.meta.dataKey \in sharing

----------------------------------------------------------------------------
(* Properties of the entity store over runs *)

\* the records the last action took out of the entity store
Removed == Pairs(before.entities) \ Pairs(entities)

\* the keys of a field (attributes, relationships) of a record
KeysOf(store, p, field) == DOMAIN Get(store[p[1]][p[2]], field, EmptyObject)

\* C19: the entity store only grows, step by step and hence over every run: an
\* action takes a record out only if it is a success/bootstrap whose refToDelete
\* names exactly that (type,id) - so an action without a complete refToDelete,
\* of whatever type, takes none out - and a record that stays keeps every
\* attribute key and every relationship key it had
C19_EntitiesOnlyGrow ==
    /\ Removed # {} => (IsSuccessOrBootstrap(event) /\ Removed \subseteq DeletedPairs(event))
    /\ \A p \in Pairs(before.entities) \cap Pairs(entities) :
            /\ KeysOf(before.entities, p, "attributes")
                    \subseteq KeysOf(entities, p, "attributes")
            /\ KeysOf(before.entities, p, "relationships")
                    \subseteq KeysOf(entities, p, "relationships")

\* C19 witness: a success/bootstrap whose fragment names one record of a type and
\* only some of its keys, with a refToDelete that lacks its id, arrived while the
\* type had another record; both records are there and the named one has kept
\* its other keys
C19_Witness ==
    /\ IsSuccessOrBootstrap(event)
    /\ "entities" \notin thrown
    /\ event.meta.refToDelete.given
    /\ DeletedPairs(event) = {}
    /\ \E p \in Pairs(before.entities) \cap Pairs(event.payload.storeFragment) :
            /\ KeysOf(before.entities, p, "attributes")
                    \ KeysOf(event.payload.storeFragment, p, "attributes") # {}
            /\ p \in Pairs(entities)
            /\ \E q \in Pairs(before.entities) \ Pairs(event.payload.storeFragment) :
                    q[1] = p[1] /\ q \in Pairs(entities)

\* C19 witness of a removal: a delete took out the record it names and left
\* another record of the same type
C19_WitnessRemoval ==
    /\ IsSuccessOrBootstrap(event)
    /\ Removed # {}
    /\ Removed = DeletedPairs(event)
    /\ \E p \in Removed : \E q \in Pairs(entities) : q[1] = p[1]

\* C19 witness of a manual update: the record kept its keys and gained one
C19_WitnessUpdate ==
    /\ event.type = "UPDATE_ENTITY"
    /\ "entities" \notin thrown
    /\ \E p \in Pairs(before.entities) :
            /\ KeysOf(before.entities, p, "attributes") # {}
            /\ KeysOf(before.entities, p, "attributes") # KeysOf(entities, p, "attributes")

----------------------------------------------------------------------------
(* Properties of the actions that are not outcomes *)

\* C20: a request-sent action and a failure action leave the whole reference store
\* and the whole entity store as they were, whatever the data key and whatever
\* the stores hold; only outcomes that succeed establish references
C20_RequestAndFailureLeaveData ==
    (event.type \in {"JSON_API_REQUEST", "JSON_API_FAILURE"}) =>
        /\ "references" \notin thrown /\ "entities" \notin thrown
        /\ references = before.references
        /\ entities = before.entities

\* C20 witness: a request was sent for a key whose reference points at records
\* of the entity store, and the reference and the records are there
C20_Witness ==
    /\ event.type = "JSON_API_REQUEST"
    /\ event.meta.dataKey \in DOMAIN references
    /\ EntitiesIsArray(references[event.meta.dataKey])
    /\ Len(references[event.meta.dataKey].entities) > 0
    /\ Pairs(entities) # {}

\* C20 witnesses of a failure: on a key with a reference, and on a key without
C20_WitnessFailure ==
    /\ event.type = "JSON_API_FAILURE"
    /\ event.meta.dataKey \in DOMAIN references
    /\ EntitiesIsArray(references[event.meta.dataKey])
    /\ Len(references[event.meta.dataKey].entities) > 0
    /\ Pairs(entities) # {}

C20_WitnessFailureOfUnfetchedKey ==
    /\ event.type = "JSON_API_FAILURE"
    /\ event.meta.dataKey \notin DOMAIN references
    /\ DOMAIN references # {}

----------------------------------------------------------------------------
(* Properties of the fields of a request record *)

\* the fields each transition of the request-status reducer writes
FieldsWritten(type) ==
    CASE type = "JSON_API_REQUEST" -> {"status", "isLoading", "pending"}
      [] type = "JSON_API_SUCCESS" ->
            {"status", "fetchedAt", "isError", "isLoaded", "isLoading"}
      [] type = "JSON_API_FAILURE" ->
            {"status", "name", "errors", "fetchedAt", "isError", "isLoaded",
             "isLoading", "pending"}

\* C21: the request-status reducer never merges the prior record of the key: after
\* every request-sent, success or failure action the record of the action's data
\* key has exactly the fields that transition writes, whatever fields the record
\* had before
C21_RecordHasOnlyWrittenFields ==
    (event.type \in {"JSON_API_REQUEST", "JSON_API_SUCCESS", "JSON_API_FAILURE"}) =>
        /\ event.meta.dataKey \in DOMAIN requests
        /\ DOMAIN requests[event.meta.dataKey] = FieldsWritten(event.type)

\* C21 witness: a request was sent for a key whose record was a success with
\* fetchedAt and isLoaded, and the record has neither now
C21_Witness ==
    /\ event.type = "JSON_API_REQUEST"
    /\ StatusOf(before.requests, event.meta.dataKey) = "success"
    /\ {"fetchedAt", "isLoaded"} \subseteq DOMAIN before.requests[event.meta.dataKey]
    /\ {"fetchedAt", "isLoaded"} \cap DOMAIN requests[event.meta.dataKey] = {}

\* C21 witness of the other example: a success landed on a record that was an
\* error with name and errors, and the record has neither now
C21_WitnessSuccessAfterFailure ==
    /\ event.type = "JSON_API_SUCCESS"
    /\ StatusOf(before.requests, event.meta.dataKey) = "error"
    /\ {"name", "errors"} \subseteq DOMAIN before.requests[event.meta.dataKey]
    /\ {"name", "errors"} \cap DOMAIN requests[event.meta.dataKey] = {}

----------------------------------------------------------------------------
(* Properties of a delete across the two stores *)

\* some reference of the store points at the pair
PointedAt(store, p) == \E k \in DOMAIN store : PointsAt(store[k], p[1], p[2]) # {}

\* C22 as claimed: the two stores agree on every delete: whatever refToDelete a
\* success/bootstrap action carries (an id of 0 or '' included) and whether or not
\* it carries isNextPage, right after it no reference points at a record the
\* action took out of the entity store
C22_AsClaimed ==
    IsSuccessOrBootstrap(event) => \A p \in Removed : ~PointedAt(references, p)

\* C22, the case of an id that is falsy but not undefined: such a delete, without
\* isNextPage, leaves no pointer at the record it took out of the entity store
C22_AsClaimedForFalsyId ==
    (IsSuccessOrBootstrap(event) /\ ~event.meta.isNextPage) =>
        \A p \in Removed : ~PointedAt(references, p)

\* the action is a delete: a success/bootstrap with a refToDelete and no isNextPage
IsDelete(action) ==
    /\ IsSuccessOrBootstrap(action)
    /\ action.meta.refToDelete.given
    /\ ~action.meta.isNextPage

\* C23: a delete only removes pointers from the reference store: the data keys
\* are those it had; every reference has its old entities without the pointers at
\* the deleted record, the others in the order they had, and its other fields as
\* they were; a value without an entities list is as it was; and the action's
\* newRequestRef is not stored under any key
C23_DeleteOnlyRemovesPointers ==
    IsDelete(event) =>
        /\ "references" \notin thrown
        /\ DOMAIN references = DOMAIN before.references
        /\ IsPurgeOf(references, before.references, event.meta.refToDelete)
        /\ sharing = {}

\* C23 witness: a delete for a data key whose reference had three pointers took
\* one out of the middle and left the two others in their order, with the links
\* of the reference, which are not those of the action's newRequestRef, while the
\* other data key holds a value
C23_Witness ==
    /\ IsDelete(event) /\ CarriesCompleteRef(event)
    /\ HadReference(event)
    /\ LET k == event.meta.dataKey
           old == before.references[k]
           d == event.meta.refToDelete
       IN  /\ Len(old.entities) = 3
           /\ PointsAt(old, d.type, d.id) = {2}
           /\ references[k].entities = <<old.entities[1], old.entities[3]>>
           /\ references[k].links = old.links
           /\ references[k] # event.payload.newRequestRef
           /\ DOMAIN references \ {k} # {}

\* C23 witness of a delete on a data key that has no reference: none is made
C23_WitnessUnfetchedKey ==
    /\ IsDelete(event)
    /\ event.meta.dataKey \notin DOMAIN before.references
    /\ event.meta.dataKey \notin DOMAIN references
    /\ DOMAIN references # {}

====
